---------------------------- MODULE Spec2Model ----------------------------
(***************************************************************************)
(* Model of python/algorithms/snapshot.py: newton_raphson (the damped      *)
(* Newton-Raphson root finder) and _solve_pos (the pseudorange model and   *)
(* the clock-bias post-processing), driven by a caller that issues a       *)
(* sequence of calls.                                                      *)
(*                                                                         *)
(* Numbers.  A real number is a triple <<n, d, k>> denoting                *)
(*     n / (d * C^k),   d > 0, gcd(n, d) = 1,                              *)
(* with C = gpsconsts.C, the speed of light in m/s.  C is kept symbolic:   *)
(* it is about 3e8 while every n and d of the model is far smaller, so two *)
(* triples denote the same real exactly when they are equal (zero is kept  *)
(* as <<0, 1, 0>>).  Arithmetic is exact; floating-point rounding and      *)
(* non-finite values are outside the model.                                *)
(***************************************************************************)
EXTENDS Integers, Sequences, FiniteSets

\* ------------------------------------------------------------------ bounds

\* Largest number of satellites in one epoch.
MaxSats == 5

\* Modelling horizon: a Newton iterate with a denominator beyond MaxDen is
\* not explored further.
MaxDen == 512

\* The ghost counters of iterations and evaluations saturate at MaxIter.
MaxIter == 3

\* ------------------------------------------------------- exact arithmetic

Abs(i) == IF i < 0 THEN -i ELSE i

RECURSIVE GCD(_, _)
GCD(a, b) == IF b = 0 THEN a ELSE GCD(b, a % b)

\* The number n / (d * C^k) in normal form (d # 0).
Mk(n, d, k) ==
    IF n = 0 THEN <<0, 1, 0>>
    ELSE LET g == GCD(Abs(n), Abs(d))
             s == IF d < 0 THEN -1 ELSE 1
         IN  <<s * (n \div g), s * (d \div g), k>>

R(i) == <<i, 1, 0>>
Frac(n, d) == Mk(n, d, 0)

IsZero(a) == a[1] = 0

RNeg(a) == <<-a[1], a[2], a[3]>>
RAbs(a) == <<Abs(a[1]), a[2], a[3]>>

\* a + b, for operands with the same power of C (or a zero operand).
RAdd(a, b) ==
    IF IsZero(a) THEN b
    ELSE IF IsZero(b) THEN a
    ELSE Mk(a[1] * b[2] + b[1] * a[2], a[2] * b[2], a[3])

RSub(a, b) == RAdd(a, RNeg(b))
RMul(a, b) == Mk(a[1] * b[1], a[2] * b[2], a[3] + b[3])
\* a / b for b # 0.
RDiv(a, b) == Mk(a[1] * b[2], a[2] * b[1], a[3] - b[3])

\* a > b, for operands with the same power of C.
RGt(a, b) == a[1] * b[2] > b[1] * a[2]
RGe(a, b) == a[1] * b[2] >= b[1] * a[2]

\* Integer square root of a perfect square, by bisection on lo..hi.
RECURSIVE IRoot(_, _, _)
IRoot(n, lo, hi) ==
    IF lo >= hi THEN lo
    ELSE LET mid == (lo + hi) \div 2
         IN  IF mid * mid >= n THEN IRoot(n, lo, mid) ELSE IRoot(n, mid + 1, hi)

\* np.sqrt on the squares of rationals (the only arguments the model
\* passes to it).
Sqrt(a) == <<IRoot(a[1], 0, a[1]), IRoot(a[2], 0, a[2]), 0>>

\* ------------------------------------------------------ vectors, matrices

\* A sequence built by a function constructor, as an explicit tuple.
Vec(v) == v \o <<>>

RECURSIVE SumSeq(_)
SumSeq(v) == IF v = <<>> THEN R(0) ELSE RAdd(Head(v), SumSeq(Tail(v)))

VSub(u, v) == Vec([i \in 1..Len(u) |-> RSub(u[i], v[i])])
VScale(c, v) == Vec([i \in 1..Len(v) |-> RMul(c, v[i])])
Dot(u, v) == SumSeq(Vec([i \in 1..Len(u) |-> RMul(u[i], v[i])]))

\* np.sum(np.abs(v))
SumAbs(v) == SumSeq(Vec([i \in 1..Len(v) |-> RAbs(v[i])]))

\* np.ones_like(v)
OnesLike(v) == Vec([i \in 1..Len(v) |-> R(1)])

\* np.linalg.norm(v): the non-negative real whose square is sq.
Norm(v) == [sq |-> Dot(v, v)]

\* M @ v, M a sequence of rows.
MatVec(M, v) == Vec([i \in 1..Len(M) |-> Dot(M[i], v)])

Col(A, j) == Vec([i \in 1..Len(A) |-> A[i][j]])
NCols(A) == Len(A[1])
NonZeroCols(A) == {j \in 1..NCols(A) : \E i \in 1..Len(A) : ~IsZero(A[i][j])}

\* np.linalg.pinv(A), the Moore-Penrose pseudoinverse, for a matrix with at
\* most two non-zero columns a, b (columns p < q).  A zero column of A is a
\* zero row of pinv(A).  With G the Gram matrix of (a, b): if det G # 0 the
\* rows p, q are G^-1 (a, b)^T; if det G = 0 then b = t a and the rows are
\* a^T / (a.a (1 + t^2)) and t a^T / (a.a (1 + t^2)).
Pinv(A) ==
    LET nz == NonZeroCols(A)
        n == Len(A)
        zrow == Vec([i \in 1..n |-> R(0)])
    IN  IF nz = {} THEN Vec([j \in 1..NCols(A) |-> zrow])
        ELSE IF Cardinality(nz) = 1 THEN
            LET p == CHOOSE j \in nz : TRUE
                a == Col(A, p)
                aa == Dot(a, a)
                rowp == Vec([i \in 1..n |-> RDiv(a[i], aa)])
            IN  Vec([j \in 1..NCols(A) |-> IF j = p THEN rowp ELSE zrow])
        ELSE
            LET p == CHOOSE j \in nz : \A j2 \in nz : j <= j2
                q == CHOOSE j \in nz : j # p
                a == Col(A, p)
                b == Col(A, q)
                aa == Dot(a, a)
                ab == Dot(a, b)
                bb == Dot(b, b)
                det == RSub(RMul(aa, bb), RMul(ab, ab))
                t == RDiv(ab, aa)
                w == RMul(aa, RAdd(R(1), RMul(t, t)))
                rowp == IF IsZero(det)
                        THEN Vec([i \in 1..n |-> RDiv(a[i], w)])
                        ELSE Vec([i \in 1..n |->
                                 RDiv(RSub(RMul(bb, a[i]), RMul(ab, b[i])), det)])
                rowq == IF IsZero(det)
                        THEN Vec([i \in 1..n |-> RDiv(RMul(t, a[i]), w)])
                        ELSE Vec([i \in 1..n |->
                                 RDiv(RSub(RMul(aa, b[i]), RMul(ab, a[i])), det)])
            IN  Vec([j \in 1..NCols(A) |->
                        IF j = p THEN rowp ELSE IF j = q THEN rowq ELSE zrow])

\* ------------------------------------------------------------------ state

VARIABLES
    pc,        \* position of the running call: "idle", "nr_loop", "nr_ret",
               \* "sp_ret", "raised"
    caller,    \* who called newton_raphson: "driver" or "solve_pos"
    inp,       \* _solve_pos's arguments prange, X, Y, Z, B (arrays)
    heap,      \* the arrays holding state vectors: "a0" is the caller's
               \* initial-guess array, "a1" the array the loop last created
    x0ref,     \* the array newton_raphson's name x0 is bound to
    prob,      \* the pair (f, df) passed to newton_raphson
    e,         \* the tolerance e
    lam,       \* the damping factor lam
    delta_x,   \* newton_raphson's delta_x
    ret,       \* what newton_raphson returned: array, its value then, norm
    result,    \* what _solve_pos returned
    iter,      \* ghost: loop iterations performed (saturating)
    nf,        \* ghost: evaluations of f (saturating)
    ndf,       \* ghost: evaluations of df (saturating)
    nupd,      \* ghost: updates of the state (saturating)
    x_init,    \* ghost: the value of x0 when newton_raphson was entered
    x_prev,    \* ghost: the state before the last update
    f_arg,     \* ghost: the argument of the last evaluation of f
    df_arg,    \* ghost: the argument of the last evaluation of df
    mark       \* ghost: one earlier _solve_pos call, its inputs and result

vars == <<pc, caller, inp, heap, x0ref, prob, e, lam, delta_x, ret, result,
          iter, nf, ndf, nupd, x_init, x_prev, f_arg, df_arg, mark>>

None == <<>>
NoInput == [prange |-> <<>>, X |-> <<>>, Y |-> <<>>, Z |-> <<>>, B |-> <<>>]
NoProb == [kind |-> "none"]
NoHeap == [r \in {"a0", "a1"} |-> None]

\* ------------------------------------------------- residuals and Jacobians

\* _solve_pos.f (the closure reads prange, X, Y, Z, B of the enclosing call).
tilde_prange(v) ==
    Vec([i \in 1..Len(inp.prange) |->
        Sqrt(RAdd(RAdd(RMul(RSub(v[1], inp.X[i]), RSub(v[1], inp.X[i])),
                       RMul(RSub(v[2], inp.Y[i]), RSub(v[2], inp.Y[i]))),
                  RMul(RSub(v[3], inp.Z[i]), RSub(v[3], inp.Z[i]))))])

f(v) ==
    LET t == tilde_prange(v)
        _prange == Vec([i \in 1..Len(inp.prange) |->
                           RSub(RAdd(t[i], v[4]), inp.B[i])])
    IN  Vec([i \in 1..Len(inp.prange) |-> RSub(inp.prange[i], _prange[i])])

\* _solve_pos.df, where no range is zero.
df(v) ==
    LET t == tilde_prange(v)
    IN  Vec([i \in 1..Len(inp.prange) |->
            <<RDiv(RNeg(RSub(v[1], inp.X[i])), t[i]),
              RDiv(RNeg(RSub(v[2], inp.Y[i])), t[i]),
              RDiv(RNeg(RSub(v[3], inp.Z[i])), t[i]),
              R(-1)>>])

\* The residual function of a problem.  Besides the pseudorange model, the
\* driver passes newton_raphson two one-equation problems in the first
\* state component: a (x1 - c) with the constant "derivative" d, and
\* a (x1^2 - c^2) with the derivative 2 a x1.
F(p, v) ==
    CASE p.kind = "prange" -> f(v)
      [] p.kind = "lin" -> <<RMul(p.a, RSub(v[1], p.c))>>
      [] p.kind = "quad" ->
             <<RMul(p.a, RSub(RMul(v[1], v[1]), RMul(p.c, p.c)))>>

DF(p, v) ==
    CASE p.kind = "prange" -> df(v)
      [] p.kind = "lin" -> <<<<p.d, R(0), R(0), R(0)>>>>
      [] p.kind = "quad" -> <<<<RMul(R(2), RMul(p.a, v[1])), R(0), R(0), R(0)>>>>

\* df divides by a zero range: 0/0 is not-a-number, on which
\* np.linalg.pinv raises LinAlgError.
DfRaises(p, v) ==
    /\ p.kind = "prange"
    /\ LET t == tilde_prange(v) IN \E i \in 1..Len(inp.prange) : IsZero(t[i])

\* ---------------------------------------------------------- newton_raphson

\* Mutant of Continue: the loop goes on while the step is >= e.
ContinueAtTolerance(d, tol) == RGe(SumAbs(d), tol)

\* The loop condition: np.sum(np.abs(delta_x)) > e.
Continue(d, tol) == RGt(SumAbs(d), tol)

\* Mutant of NewtonDelta: the damping factor is left out.
NewtonDeltaUndamped(p, v, l) == MatVec(Pinv(DF(p, v)), F(p, v))

\* Mutant of NewtonDelta: the Jacobian of the first iteration is reused.
NewtonDeltaCachedJacobian(p, v, l) ==
    VScale(l, MatVec(Pinv(DF(p, x_init)), F(p, v)))

\* delta_x = lam*(np.linalg.pinv(df(x0)) @ f(x0))
NewtonDelta(p, v, l) == VScale(l, MatVec(Pinv(DF(p, v)), F(p, v)))

\* Mutant of Rebind: the update is made in place (x0 -= delta_x).
RebindInPlace(h, ref, val) == [heap |-> [h EXCEPT ![ref] = val], ref |-> ref]

\* x0 = x0 - delta_x: the difference is a new array, to which the name x0
\* is bound; the array x0 named before is left as it was.
Rebind(h, ref, val) == [heap |-> [h EXCEPT !["a1"] = val], ref |-> "a1"]

\* Mutant of ReturnedNorm: the residual of the state before the last update.
ReturnedNormStale(p, v) == Norm(F(p, x_prev))

\* The second returned value: np.linalg.norm(f(x0)), x0 the returned state.
ReturnedNorm(p, v) == Norm(F(p, v))

Inc(c) == IF c < MaxIter THEN c + 1 ELSE c

InRange(v) == \A i \in 1..Len(v) : v[i][2] <= MaxDen

\* Entry of newton_raphson(f, df, x0, e, lam) with x0 the array "a0":
\* delta_x = np.ones_like(x0).
NREnter(p, x, tol, l, who) ==
    /\ pc' = "nr_loop"
    /\ caller' = who
    /\ heap' = [NoHeap EXCEPT !["a0"] = x]
    /\ x0ref' = "a0"
    /\ prob' = p
    /\ e' = tol
    /\ lam' = l
    /\ delta_x' = OnesLike(x)
    /\ ret' = None
    /\ result' = None
    /\ iter' = 0 /\ nf' = 0 /\ ndf' = 0 /\ nupd' = 0
    /\ x_init' = x /\ x_prev' = x
    /\ f_arg' = None /\ df_arg' = None

\* One pass through the loop body (lines 16-17).
NRIter ==
    /\ pc = "nr_loop"
    /\ Continue(delta_x, e)
    /\ ~DfRaises(prob, heap[x0ref])
    /\ LET x == heap[x0ref]
           d == NewtonDelta(prob, x, lam)
           b == Rebind(heap, x0ref, VSub(x, d))
       IN  /\ InRange(VSub(x, d))
           /\ delta_x' = d
           /\ heap' = b.heap
           /\ x0ref' = b.ref
           /\ x_prev' = x
           /\ f_arg' = x
           /\ df_arg' = x
    /\ iter' = Inc(iter) /\ nf' = Inc(nf) /\ ndf' = Inc(ndf) /\ nupd' = Inc(nupd)
    /\ UNCHANGED <<pc, caller, inp, prob, e, lam, ret, result, x_init, mark>>

\* df(x0) divides by a zero range and np.linalg.pinv raises.
NRRaise ==
    /\ pc = "nr_loop"
    /\ Continue(delta_x, e)
    /\ DfRaises(prob, heap[x0ref])
    /\ pc' = "raised"
    /\ df_arg' = heap[x0ref]
    /\ ndf' = Inc(ndf)
    /\ UNCHANGED <<caller, inp, heap, x0ref, prob, e, lam, delta_x, ret, result,
                   iter, nf, nupd, x_init, x_prev, f_arg, mark>>

\* The loop condition fails: return x0, np.linalg.norm(f(x0)) (line 18).
NRExit ==
    /\ pc = "nr_loop"
    /\ ~Continue(delta_x, e)
    /\ pc' = "nr_ret"
    /\ ret' = [x |-> x0ref, val |-> heap[x0ref],
               norm |-> ReturnedNorm(prob, heap[x0ref])]
    /\ f_arg' = heap[x0ref]
    /\ nf' = Inc(nf)
    /\ UNCHANGED <<caller, inp, heap, x0ref, prob, e, lam, delta_x, result,
                   iter, ndf, nupd, x_init, x_prev, df_arg, mark>>

\* ---------------------------------------------------------------- _solve_pos

\* x, y, z, cdt = 100., 100., 100., 0.
InitialGuess == <<R(100), R(100), R(100), R(0)>>

\* gpsconsts.C, the speed of light (the symbolic C of the number triples).
CLight == <<1, 1, -1>>

\* Mutant of ScaleClock: the whole vector is rescaled (x_fix*1e6/C).
ScaleClockAll(v) ==
    Vec([i \in 1..Len(v) |-> RDiv(RMul(v[i], R(1000000)), CLight)])

\* x_fix[-1] = x_fix[-1]*1e6/gpsconsts.C
ScaleClock(v) ==
    [v EXCEPT ![Len(v)] = RDiv(RMul(v[Len(v)], R(1000000)), CLight)]

\* np.empty(4): an array of uninitialized memory; what it holds is whatever
\* the allocator hands out.
UninitValues == {<<R(0), R(0), R(0), R(0)>>, InitialGuess}

\* After newton_raphson returned to _solve_pos (lines 51-54): x_fix is the
\* returned array; its last element is rescaled in place and it is returned.
SPPost ==
    /\ pc = "nr_ret"
    /\ caller = "solve_pos"
    /\ pc' = "sp_ret"
    /\ heap' = [heap EXCEPT ![ret.x] = ScaleClock(heap[ret.x])]
    /\ result' = heap'[ret.x]
    /\ UNCHANGED <<caller, inp, x0ref, prob, e, lam, delta_x, ret,
                   iter, nf, ndf, nupd, x_init, x_prev, f_arg, df_arg, mark>>

\* ------------------------------------------------------------------- driver

\* The frames of a finished call are gone.
Reset ==
    /\ pc' = "idle"
    /\ caller' = "driver"
    /\ inp' = NoInput
    /\ heap' = NoHeap
    /\ x0ref' = "a0"
    /\ prob' = NoProb
    /\ e' = R(0)
    /\ lam' = R(0)
    /\ delta_x' = None
    /\ ret' = None
    /\ result' = None
    /\ iter' = 0 /\ nf' = 0 /\ ndf' = 0 /\ nupd' = 0
    /\ x_init' = None /\ x_prev' = None
    /\ f_arg' = None /\ df_arg' = None

\* Satellite i of an epoch: on the line x = y = 100 through the initial
\* guess, alternately below and above it (z = 90, 110, 80, 120, ...).
SatZ(i) == 100 + (IF i % 2 = 1 THEN -1 ELSE 1) * 10 * ((i + 1) \div 2)

\* An epoch of n satellites whose pseudoranges are exact for a receiver at
\* (100, 100, zt) with clock bias 3 m, each with the correction B = 2 m.
Epoch(n, zt) ==
    [prange |-> Vec([i \in 1..n |-> R(Abs(zt - SatZ(i)) + 3 - 2)]),
     X |-> Vec([i \in 1..n |-> R(100)]),
     Y |-> Vec([i \in 1..n |-> R(100)]),
     Z |-> Vec([i \in 1..n |-> R(SatZ(i))]),
     B |-> Vec([i \in 1..n |-> R(2)])]

TrueZ == {103, 110, 115}
SPTolerances == {Frac(1, 1000), R(4)}

Problems ==
    [kind : {"lin"}, a : {R(1), R(2)}, c : {R(1)}, d : {R(0), R(1), R(2)}]
    \cup [kind : {"quad"}, a : {R(1)}, c : {R(2)}]
Guesses == {<<R(5), R(0), R(0), R(0)>>, <<R(1), R(2), R(0), R(1)>>}
Tolerances == {Frac(1, 1000), R(1), R(4), R(5)}
Dampings == {R(0), Frac(1, 2), R(1)}

\* The driver calls newton_raphson(f, df, x0, e, lam).
CallNewton ==
    /\ pc = "idle"
    /\ \E p \in Problems, x \in Guesses, tol \in Tolerances, l \in Dampings :
           NREnter(p, x, tol, l, "driver")
    /\ UNCHANGED <<inp, mark>>

\* The driver calls _solve_pos(prange, X, Y, Z, B, e) (lines 20-51): with
\* fewer than 4 satellites it returns np.empty(4); otherwise it calls
\* newton_raphson(f, df, x0, e=e) with the fixed initial guess.
CallSolvePos ==
    /\ pc = "idle"
    /\ \E n \in 0..MaxSats, zt \in TrueZ, tol \in SPTolerances :
        /\ inp' = Epoch(n, zt)
        /\ IF Len(inp'.prange) < 4
           THEN /\ pc' = "sp_ret"
                /\ \E u \in UninitValues : result' = u
                /\ e' = tol
                /\ UNCHANGED <<caller, heap, x0ref, prob, lam, delta_x, ret,
                               iter, nf, ndf, nupd, x_init, x_prev, f_arg, df_arg>>
           ELSE NREnter([kind |-> "prange"], InitialGuess, tol, R(1), "solve_pos")
    /\ UNCHANGED mark

\* newton_raphson returns to the driver.
NRReturn ==
    /\ pc = "nr_ret"
    /\ caller = "driver"
    /\ Reset
    /\ UNCHANGED mark

\* _solve_pos returns to the driver, which may keep the call for comparison.
SPReturn ==
    /\ pc = "sp_ret"
    /\ Reset
    /\ mark' \in {mark, [inp |-> inp, e |-> e, result |-> result]}

\* The LinAlgError propagates to the driver.
Raised ==
    /\ pc = "raised"
    /\ Reset
    /\ UNCHANGED mark

Init ==
    /\ pc = "idle"
    /\ caller = "driver"
    /\ inp = NoInput
    /\ heap = NoHeap
    /\ x0ref = "a0"
    /\ prob = NoProb
    /\ e = R(0)
    /\ lam = R(0)
    /\ delta_x = None
    /\ ret = None
    /\ result = None
    /\ iter = 0 /\ nf = 0 /\ ndf = 0 /\ nupd = 0
    /\ x_init = None /\ x_prev = None
    /\ f_arg = None /\ df_arg = None
    /\ mark = None

Next ==
    \/ CallNewton
    \/ CallSolvePos
    \/ NRIter
    \/ NRRaise
    \/ NRExit
    \/ NRReturn
    \/ SPPost
    \/ SPReturn
    \/ Raised

Spec == Init /\ [][Next]_vars


\* ------------------------------------------------------------------ claims

NSats == Len(inp.prange)

\* C1: every _solve_pos call with fewer than 4 satellites returns the one
\* fixed "unsolvable" sentinel (any two such calls return the same vector),
\* without evaluating f or df and without raising.
C1_DegenerateEpochReturnsFixedSentinel ==
    (pc = "sp_ret" /\ NSats < 4) =>
        /\ nf = 0 /\ ndf = 0 /\ iter = 0
        /\ (mark # None /\ Len(mark.inp.prange) < 4) => result = mark.result

\* C2: newton_raphson terminates within a maximum number of iterations,
\* whatever f, df, x0, e and lam are.  Each pass of the loop is a function
\* of the state x0 alone, so a terminating call never comes back, after a
\* pass, to the state it started from with the loop condition still true:
\* from there it would repeat the same passes forever.
C2_NeverBackAtInitialGuess ==
    ~(/\ pc = "nr_loop"
      /\ iter >= 1
      /\ heap[x0ref] = x_init
      /\ Continue(delta_x, e))

\* C3: with lam = 0 newton_raphson returns the initial guess exactly and
\* the norm of f at the initial guess.
C3_ZeroDampingReturnsGuess ==
    (pc = "nr_ret" /\ lam = R(0)) =>
        /\ ret.val = x_init
        /\ ret.norm = Norm(F(prob, x_init))

C3_Witness ==
    /\ pc = "nr_ret"
    /\ lam = R(0)
    /\ iter >= 1
    /\ ~IsZero(ret.norm.sq)

\* C4 as stated: after a computed step, newton_raphson stops exactly when
\* the L1 norm of that step is strictly less than e.
C4_StopsIffStepBelowTolerance ==
    [][(pc = "nr_loop" /\ iter >= 1) =>
          ((pc' = "nr_ret") <=> RGt(e, SumAbs(delta_x)))]_vars

\* C4 as amended: newton_raphson stops exactly when the L1 norm of delta_x
\* (the last computed step, or the initial all-ones vector when no step was
\* computed yet) is less than or equal to e; it goes on exactly when the
\* norm is strictly greater than e.
C4_StopsIffStepAtMostTolerance ==
    [][(pc = "nr_loop") =>
          ((pc' = "nr_ret") <=> RGe(e, SumAbs(delta_x)))]_vars

\* A return after a computed step whose L1 norm equals the tolerance.
C4_Witness ==
    /\ pc = "nr_ret"
    /\ iter >= 1
    /\ SumAbs(delta_x) = e

\* C5: a _solve_pos call with n >= 4 that returns gives newton_raphson's
\* state in the first three components and cdt * 1e6 / C in the fourth.
C5_ClockBiasScaledOnce ==
    (pc = "sp_ret" /\ NSats >= 4) =>
        /\ \A i \in 1..3 : result[i] = ret.val[i]
        /\ result[4] = RDiv(RMul(ret.val[4], R(1000000)), CLight)

C5_Witness ==
    /\ pc = "sp_ret"
    /\ NSats >= 4
    /\ iter >= 1
    /\ ~IsZero(ret.val[4])
    /\ ret.val[3] # R(100)

\* C6: two _solve_pos calls with equal inputs (prange, X, Y, Z, B, e) return
\* equal results, whatever calls came between them.
C6_EqualInputsEqualResults ==
    (pc = "sp_ret" /\ mark # None /\ mark.inp = inp /\ mark.e = e) =>
        result = mark.result

\* The part of C6 about solvable epochs.
SolvableEpochsEqualResults ==
    (pc = "sp_ret" /\ NSats >= 4 /\ mark # None /\ mark.inp = inp /\ mark.e = e) =>
        result = mark.result

\* C7: the second value newton_raphson returns is the 2-norm of f at the
\* returned state, for any number of iterations.
C7_ResidualOfReturnedState ==
    (pc = "nr_ret") =>
        /\ heap[ret.x] = ret.val
        /\ ret.norm = Norm(F(prob, ret.val))

\* A return after at least one update, where the residual of the returned
\* state differs from that of the state before and from the step's norm.
C7_Witness ==
    /\ pc = "nr_ret"
    /\ iter >= 1
    /\ ret.norm # Norm(F(prob, x_prev))
    /\ ret.norm # Norm(delta_x)

\* C8: newton_raphson performs at least one Newton step (an evaluation of
\* f and of df and an update) before it returns, for every tolerance.
C8_AtLeastOneStep ==
    (pc = "nr_ret") => (iter >= 1 /\ ndf >= 1 /\ nupd >= 1)

\* C9: every iteration evaluates f and df at the current state x_k and sets
\* x_{k+1} = x_k - lam pinv(df(x_k)) f(x_k); df is evaluated and the state
\* updated once per iteration.
C9_StepFromCurrentState ==
    /\ []((pc \in {"nr_loop", "nr_ret"}) => (ndf = iter /\ nupd = iter))
    /\ [][(pc = "nr_loop" /\ pc' = "nr_loop") =>
             LET x == heap[x0ref]
             IN  /\ heap'[x0ref'] =
                        VSub(x, VScale(lam, MatVec(Pinv(DF(prob, x)), F(prob, x))))
                 /\ f_arg' = x
                 /\ df_arg' = x
                 /\ iter' = Inc(iter)]_vars

\* A second iteration whose Jacobian differs from the first one's.
C9_Witness ==
    /\ pc = "nr_loop"
    /\ iter >= 2
    /\ DF(prob, df_arg) # DF(prob, x_init)

\* C10: when newton_raphson returns, the caller's initial-guess array holds
\* what it held at the call; during a _solve_pos call the arrays prange, X,
\* Y, Z and B do not change.
C10_InputsUnmodified ==
    /\ []((pc = "nr_ret") => heap["a0"] = x_init)
    /\ [][(pc \in {"nr_loop", "nr_ret"} /\ caller = "solve_pos") => inp' = inp]_vars

C10_Witness ==
    /\ pc = "sp_ret"
    /\ NSats >= 4
    /\ nupd >= 1
    /\ ret.x # "a0"
    /\ heap["a0"] = InitialGuess

=============================================================================
